---- MODULE Spec2Model ----
(***************************************************************************)
(* Model of nest::stdp_pl_synapse_hom_ax_delay                             *)
(* (src/models/stdp_pl_synapse_hom_ax_delay.h): the forward update send(), *)
(* the retroactive correction adjust_weight(), check_connection() and the  *)
(* private helpers facilitate_() and depress_().                           *)
(*                                                                         *)
(* Numbers.  The code computes in double.  The model computes in exact     *)
(* rationals <<n, d>> (d > 0, lowest terms).  Times are whole milliseconds.*)
(* tau_plus is fixed to 1/ln 2 ms, so that exp(x / tau_plus) = 2^x is a    *)
(* rational for every whole x; mu ranges over {0, 1}, for which            *)
(* pow(w, mu) is rational.                                                 *)
(*                                                                         *)
(* The target node (spike history, K value, pending-correction queue) and  *)
(* the kernel clock are collaborators outside the file; they are modelled  *)
(* from their interface.                                                   *)
(***************************************************************************)
EXTENDS Integers, Sequences, FiniteSets, TLC

\* ------------------------------------------------------------------ bounds
\* Last simulated millisecond.
MaxTime == 4
\* Most calls of adjust_weight in one run.
MaxAdjust == 2
\* Most presynaptic spikes (calls of send) in one run.
MaxSends == 3
\* Most postsynaptic spikes in one run.
MaxPost == 2

\* ------------------------------------------------- double arithmetic (exact)
Abs(x) == IF x < 0 THEN -x ELSE x

RECURSIVE GCD(_, _)
GCD(a, b) == IF b = 0 THEN a ELSE GCD(b, a % b)

\* n / d in lowest terms, d > 0.
Norm(n, d) ==
  LET g == GCD(Abs(n), d)
  IN  IF n = 0 THEN <<0, 1>> ELSE <<n \div g, d \div g>>

Rat(n) == <<n, 1>>

RAdd(a, b) ==
  LET g == GCD(a[2], b[2])
      l == (a[2] \div g) * b[2]
  IN  Norm(a[1] * (l \div a[2]) + b[1] * (l \div b[2]), l)

RNeg(a) == <<-a[1], a[2]>>

RSub(a, b) == RAdd(a, RNeg(b))

RMul(a, b) ==
  LET g1 == GCD(Abs(a[1]), b[2])
      g2 == GCD(Abs(b[1]), a[2])
  IN  IF a[1] = 0 \/ b[1] = 0 THEN <<0, 1>>
      ELSE <<(a[1] \div g1) * (b[1] \div g2), (a[2] \div g2) * (b[2] \div g1)>>

\* a / b, b # 0.
RDiv(a, b) ==
  IF b[1] > 0 THEN RMul(a, <<b[2], b[1]>>) ELSE RMul(a, <<-b[2], -b[1]>>)

RLt(a, b) ==
  LET g == GCD(a[2], b[2])
  IN  a[1] * (b[2] \div g) < b[1] * (a[2] \div g)

RLe(a, b) == ~RLt(b, a)

RECURSIVE TwoTo(_)
TwoTo(k) == IF k = 0 THEN 1 ELSE 2 * TwoTo(k - 1)

\* std::exp( x * cp.tau_plus_inv_ ) for whole x, with tau_plus = 1 / ln 2.
ExpTauPlus(x) == IF x >= 0 THEN <<TwoTo(x), 1>> ELSE <<1, TwoTo(-x)>>

\* std::pow( w, cp.mu_ ) for mu in {0, 1}.
Pow(w, mu) == IF mu = 0 THEN Rat(1) ELSE w

\* kernel().connection_manager.get_stdp_eps(): a small positive epsilon.
StdpEps == <<1, 1000000>>

\* ------------------------------------------------------------------- state
VARIABLES
  weight_,       \* stdp_pl_synapse_hom_ax_delay::weight_
  Kplus_,        \* stdp_pl_synapse_hom_ax_delay::Kplus_ (trace_pre)
  t_lastspike_,  \* stdp_pl_synapse_hom_ax_delay::t_lastspike_
  delay,         \* ConnectionBase::get_delay(), ms; one step is 1 ms
  cp,            \* STDPPLHomAxDelayCommonProperties: lambda_, alpha_, mu_, axonal_delay_
  connected,     \* check_connection() has run
  registered,    \* arguments check_connection() gave register_stdp_connection()
  history,       \* target: times of the postsynaptic spikes recorded so far
  adjQueue,      \* target: adjustentry objects given to add_synapse_to_check()
  sent,          \* events delivered by e(), oldest first
  cout,          \* lines written to std::cout, oldest first
  now,           \* kernel clock, ms
  aborted,       \* an assert() has failed and the process has ended
  pre,           \* history variable: synapse and history at entry of the last send()
  lastOp,        \* history variable: the last call on the synapse and its arguments
  dispatched     \* history variable: per completed send(), the synapse at its entry
                 \* and what the target finds when e() is called

vars == <<weight_, Kplus_, t_lastspike_, delay, cp, connected, registered, history,
          adjQueue, sent, cout, now, aborted, pre, lastOp, dispatched>>

\* (total delay, axonal delay) of the runs explored: dendritic delay above,
\* equal to and below the axonal delay, and one with axonal delay above the
\* total delay.
DelayConfigs == {<<1, 0>>, <<2, 1>>, <<3, 2>>, <<2, 2>>, <<1, 2>>}

\* (lambda, alpha, mu) of the runs explored.
ParamConfigs == {<<Rat(1), Rat(1), 0>>, <<Rat(1), Rat(2), 1>>}

\* connection.h: the receptor port of the connection.
get_rport == 0

\* ------------------------------------------------------- private helpers
facilitate_(w, kplus, c) == RAdd(w, RMul(RMul(c.lambda_, Pow(w, c.mu_)), kplus))

\* depress_ without the clamp at 0.0.
depress_noclamp(w, kminus, c) ==
  RSub(w, RMul(RMul(RMul(c.lambda_, c.alpha_), w), kminus))

\* depress_ with the sign of the decrement flipped.
depress_plus(w, kminus, c) ==
  LET new_w == RAdd(w, RMul(RMul(RMul(c.lambda_, c.alpha_), w), kminus))
  IN  IF RLt(Rat(0), new_w) THEN new_w ELSE Rat(0)

depress_(w, kminus, c) ==
  LET new_w == RSub(w, RMul(RMul(RMul(c.lambda_, c.alpha_), w), kminus))
  IN  IF RLt(Rat(0), new_w) THEN new_w ELSE Rat(0)

\* ------------------------------------------------------------ the target
\* The members of set S (whole numbers) in increasing order.
RECURSIVE SortedSeq(_)
SortedSeq(S) ==
  IF S = {} THEN <<>>
  ELSE LET m == CHOOSE x \in S : \A y \in S : x <= y
       IN  <<m>> \o SortedSeq(S \ {m})

\* Node::get_history( t1, t2, &start, &finish ): the recorded spikes in (t1, t2].
get_history(hist, t1, t2) == SortedSeq({s \in hist : t1 < s /\ s <= t2})

\* Node::get_K_value( t ): the postsynaptic trace at t; every recorded spike
\* before t adds exp( -( t - s ) / tau_minus ), with tau_minus = 1 / ln 2.
RECURSIVE SumTrace(_, _)
SumTrace(S, t) ==
  IF S = {} THEN Rat(0)
  ELSE LET s == CHOOSE x \in S : TRUE
       IN  RAdd(ExpTauPlus(s - t), SumTrace(S \ {s}, t))

get_K_value(hist, t) == SumTrace({s \in hist : s < t}, t)

\* The assert compiled out: every minus_dt passes.
AssertCausal_off(minus_dt) == TRUE

\* The assert with <= 0 in place of < -eps.
AssertCausal_orZero(minus_dt) == minus_dt <= 0

\* assert( minus_dt < -1.0 * kernel().connection_manager.get_stdp_eps() )
AssertCausal(minus_dt) == RLt(Rat(minus_dt), RNeg(StdpEps))

\* ------------------------------------------------------------------- Init
\* The constructor: weight_( 1.0 ), Kplus_( 0.0 ), t_lastspike_( 0.0 ).  The
\* connection's delay and the common properties are set before the run.
Init ==
  /\ weight_ = Rat(1)
  /\ Kplus_ = Rat(0)
  /\ t_lastspike_ = 0
  /\ \E dc \in DelayConfigs, pc \in ParamConfigs :
       /\ delay = dc[1]
       /\ cp = [lambda_ |-> pc[1], alpha_ |-> pc[2], mu_ |-> pc[3], axonal_delay_ |-> dc[2]]
  /\ connected = FALSE
  /\ registered = <<>>
  /\ history = {}
  /\ adjQueue = <<>>
  /\ sent = <<>>
  /\ cout = <<>>
  /\ now = 1
  /\ aborted = FALSE
  /\ pre = [weight_ |-> Rat(1), Kplus_ |-> Rat(0), t_lastspike_ |-> 0, history |-> {}]
  /\ lastOp = [op |-> "none", prev |-> "none", entry |-> 0, spike |-> 0,
               rollback |-> Rat(0), status_set |-> FALSE]
  /\ dispatched = <<>>

\* -------------------------------------------------------- check_connection
\* The history start at the last presynaptic spike itself.
HistoryStart_lastSpike(tl, d) == tl

\* The first argument of register_stdp_connection: t_lastspike_ - get_delay().
HistoryStart(tl, d) == tl - d

\* t.register_stdp_connection( t_lastspike_ - get_delay(), get_delay() ); the
\* CommonPropertiesType argument is unnamed and unused.
check_connection ==
  /\ ~connected
  /\ ~aborted
  /\ connected' = TRUE
  /\ registered' = <<HistoryStart(t_lastspike_, delay), delay>>
  /\ UNCHANGED <<weight_, Kplus_, t_lastspike_, delay, cp, history, adjQueue, sent,
                 cout, now, aborted, pre, lastOp, dispatched>>

\* ------------------------------------------------------------- set_status
\* The dictionaries given to set_status in the runs explored.
StatusDicts == {[weight |-> Rat(2), Kplus |-> Rat(1)]}

\* updateValue< double >( d, name, x ): x becomes d[name] when d has the key.
updateValue(d, name, x) == IF name \in DOMAIN d THEN d[name] ELSE x

\* set_status( d, cm ) on the connection, before its first presynaptic spike.
set_status(d) ==
  /\ connected
  /\ ~aborted
  /\ lastOp.op = "none"
  /\ weight_' = updateValue(d, "weight", weight_)
  /\ Kplus_' = updateValue(d, "Kplus", Kplus_)
  /\ lastOp' = [lastOp EXCEPT !.op = "set_status", !.status_set = TRUE]
  /\ UNCHANGED <<t_lastspike_, delay, cp, connected, registered, history, adjQueue,
                 sent, cout, now, aborted, pre, dispatched>>

SetStatus == \E d \in StatusDicts : set_status(d)

\* ------------------------------------------------------------------- send
\* double dendritic_delay = get_delay() - cp.axonal_delay_;
DendriticDelay(d, c) == d - c.axonal_delay_

\* The facilitation loop of send(): one step per spike of h from index i on.
\* n is the number of spikes facilitated; ok is FALSE when the assert failed
\* at spike n + 1.
RECURSIVE FacilLoop(_, _, _, _, _, _, _)
FacilLoop(w, h, i, kplus, tl, dd, c) ==
  IF i > Len(h) THEN [w |-> w, n |-> i - 1, ok |-> TRUE]
  ELSE LET minus_dt == tl + c.axonal_delay_ - (h[i] + dd)
       IN  IF ~AssertCausal(minus_dt) THEN [w |-> w, n |-> i - 1, ok |-> FALSE]
           ELSE FacilLoop(facilitate_(w, RMul(kplus, ExpTauPlus(minus_dt)), c),
                          h, i + 1, kplus, tl, dd, c)

\* The test with >= in place of >.
NeedsAdjust_orEqual(c, dd) == c.axonal_delay_ >= dd

\* if ( cp.axonal_delay_ > dendritic_delay )
NeedsAdjust(c, dd) == c.axonal_delay_ > dd

\* The lower bound without the axonal delay.
WindowLower_noAxonal(tl, dd, c) == tl - dd

\* The lower bound at the last presynaptic spike itself.
WindowLower_lastSpike(tl, dd, c) == tl

\* get_history( t_lastspike_ - dendritic_delay + cp.axonal_delay_, ... )
WindowLower(tl, dd, c) == tl - dd + c.axonal_delay_

\* get_history( ..., t_spike - dendritic_delay + cp.axonal_delay_, ... )
WindowUpper(t_spike, dd, c) == t_spike - dd + c.axonal_delay_

\* What send() computes for a presynaptic spike at t_spike from the synapse
\* (w, kplus, tl) and the target's history hist: the facilitation loop, the
\* weight before depression, the depression.
SendResult(w, kplus, tl, t_spike, hist, d, c) ==
  LET dd == DendriticDelay(d, c)
      t1 == WindowLower(tl, dd, c)
      t2 == WindowUpper(t_spike, dd, c)
      h == get_history(hist, t1, t2)
      fl == FacilLoop(w, h, 1, kplus, tl, dd, c)
      K_minus == get_K_value(hist, t_spike + c.axonal_delay_ - dd)
  IN  [t1 |-> t1, t2 |-> t2, h |-> h, n |-> fl.n, ok |-> fl.ok,
       old_weight |-> fl.w, K_minus |-> K_minus,
       weight |-> IF fl.ok THEN depress_(fl.w, K_minus, c) ELSE fl.w]

\* The std::cout lines of send(): the window asked of get_history, the spike
\* (shifted by the dendritic delay) of each facilitation, the weight before
\* and after the depression.
SendLines(r, dd) ==
  <<[tag |-> "get_history", a |-> r.t1, b |-> r.t2]>>
  \o [k \in 1..r.n |-> [tag |-> "facilitation", a |-> r.h[k] + dd, b |-> 0]]
  \o (IF r.ok THEN <<[tag |-> "depression", a |-> r.old_weight, b |-> r.weight]>>
      ELSE <<>>)

\* The trace decayed but not incremented.
NextKplus_noIncrement(kplus, tl, t_spike) == RMul(kplus, ExpTauPlus(tl - t_spike))

\* Kplus_ = Kplus_ * std::exp( ( t_lastspike_ - t_spike ) * cp.tau_plus_inv_ ) + 1.0;
NextKplus(kplus, tl, t_spike) == RAdd(RMul(kplus, ExpTauPlus(tl - t_spike)), Rat(1))

\* The entry with the weight after the depression as old_weight_.
NewEntry_afterDepression(tl, r, t_spike, dd, c) ==
  [t_lastspike_ |-> tl, old_weight_ |-> r.weight,
   t_received_ |-> t_spike + c.axonal_delay_ - dd]

\* adjustentry( t_lastspike_, old_weight, t_spike + cp.axonal_delay_ - dendritic_delay, ... )
\* for the send() whose computation is r.
NewEntry(tl, r, t_spike, dd, c) ==
  [t_lastspike_ |-> tl, old_weight_ |-> r.old_weight,
   t_received_ |-> t_spike + c.axonal_delay_ - dd]

\* e() called only after Kplus_, t_lastspike_ and the queue were updated.
EventView_afterUpdate(w, kplus, tl, t_spike, q, c, dd) ==
  [weight_ |-> w, Kplus_ |-> NextKplus(kplus, tl, t_spike), t_lastspike_ |-> t_spike,
   pending |-> Len(q) + (IF NeedsAdjust(c, dd) THEN 1 ELSE 0)]

\* What the target finds when send() calls e(): the call comes after
\* weight_ = depress_( ... ) and before add_synapse_to_check( a ),
\* Kplus_ = ... and t_lastspike_ = t_spike.
EventView(w, kplus, tl, t_spike, q, c, dd) ==
  [weight_ |-> w, Kplus_ |-> kplus, t_lastspike_ |-> tl, pending |-> Len(q)]

\* send( e, t, cp ) for the presynaptic spike e with stamp now.
send ==
  /\ connected
  /\ ~aborted
  /\ now > t_lastspike_
  /\ Len(SelectSeq(sent, LAMBDA e : e.src = "send")) < MaxSends
  /\ LET t_spike == now
         dd == DendriticDelay(delay, cp)
         r == SendResult(weight_, Kplus_, t_lastspike_, t_spike, history, delay, cp)
     IN  /\ weight_' = r.weight
         /\ cout' = cout \o SendLines(r, dd)
         /\ aborted' = ~r.ok
         /\ pre' = [weight_ |-> weight_, Kplus_ |-> Kplus_,
                    t_lastspike_ |-> t_lastspike_, history |-> history]
         /\ lastOp' = [op |-> "send", prev |-> lastOp.op, entry |-> 0, spike |-> 0,
                       rollback |-> Rat(0), status_set |-> lastOp.status_set]
         /\ IF r.ok
            THEN /\ sent' = Append(sent, [src |-> "send", weight |-> r.weight,
                                          delay_steps |-> delay, rport |-> get_rport,
                                          stamp |-> t_spike])
                 /\ adjQueue' = IF NeedsAdjust(cp, dd)
                                THEN Append(adjQueue,
                                            NewEntry(t_lastspike_, r, t_spike, dd, cp))
                                ELSE adjQueue
                 /\ Kplus_' = NextKplus(Kplus_, t_lastspike_, t_spike)
                 /\ t_lastspike_' = t_spike
                 /\ dispatched' = Append(dispatched,
                                     [Kplus_ |-> Kplus_, t_lastspike_ |-> t_lastspike_,
                                      at_event |-> EventView(r.weight, Kplus_, t_lastspike_,
                                                             t_spike, adjQueue, cp, dd)])
            ELSE UNCHANGED <<sent, adjQueue, Kplus_, t_lastspike_, dispatched>>
  /\ UNCHANGED <<delay, cp, connected, registered, history, now>>

\* ---------------------------------------------------------- adjust_weight
\* Kplus_corr without the "- 1.0" that removes the dispatching spike's own increment.
KplusCorr_keepIncrement(kplus, tl, t_spike) == RDiv(kplus, ExpTauPlus(tl - t_spike))

\* double Kplus_corr = ( Kplus_ - 1.0 ) / std::exp( ( a->t_lastspike_ - t_spike ) / cp.tau_plus_ );
KplusCorr(kplus, tl, t_spike) == RDiv(RSub(kplus, Rat(1)), ExpTauPlus(tl - t_spike))

\* t_spike taken to be the entry's t_received_.
AdjustSpikeTime_received(a, dd, c) == a.t_received_

\* double t_spike = a->t_received_ - cp.axonal_delay_ + dendritic_delay;
AdjustSpikeTime(a, dd, c) == a.t_received_ - c.axonal_delay_ + dd

\* The event carrying the corrected weight itself.
Payload_absolute(w, ori_weight_) == w

\* e.set_weight( weight_ - ori_weight_ );
Payload(w, ori_weight_) == RSub(w, ori_weight_)

\* What adjust_weight( a, missing_spike, cp ) computes from the synapse
\* (w, kplus), the entry a and the target's history hist.
AdjustResult(w, kplus, a, missing_spike, hist, d, c) ==
  LET ori_weight_ == w
      dd == DendriticDelay(d, c)
      t_spike == AdjustSpikeTime(a, dd, c)
      minus_dt == a.t_lastspike_ + c.axonal_delay_ - (missing_spike + dd)
      ok == AssertCausal(minus_dt)
      Kplus_corr == KplusCorr(kplus, a.t_lastspike_, t_spike)
      w1 == facilitate_(a.old_weight_, RMul(Kplus_corr, ExpTauPlus(minus_dt)), c)
      K_minus == get_K_value(hist, t_spike + c.axonal_delay_ - dd)
      w2 == depress_(w1, K_minus, c)
  IN  [ok |-> ok, t_spike |-> t_spike, rollback |-> a.old_weight_,
       old_weight |-> IF ok THEN w1 ELSE a.old_weight_,
       weight |-> IF ok THEN w2 ELSE a.old_weight_,
       payload |-> IF ok THEN Payload(w2, ori_weight_) ELSE Rat(0)]

\* The std::cout lines of adjust_weight(); get_history( missing_spike - 1e-3,
\* missing_spike + 1e-3 ) finds the spike when it is recorded.
AdjustLines(r, missing_spike, hist, dd) ==
  (IF missing_spike \in hist
   THEN <<[tag |-> "found missing spike in hist", a |-> missing_spike, b |-> 0]>>
   ELSE <<>>)
  \o (IF r.ok THEN <<[tag |-> "adj facilitation", a |-> missing_spike + dd, b |-> 0],
                     [tag |-> "adj depression", a |-> r.old_weight, b |-> r.weight]>>
      ELSE <<>>)

\* adjust_weight that also takes the dispatching spike's increment out of Kplus_.
AdjustFrame_rollbackTrace ==
  /\ Kplus_' = RSub(Kplus_, Rat(1))
  /\ UNCHANGED <<t_lastspike_, delay, cp, connected, registered, history, now, pre,
                 dispatched>>

\* What adjust_weight() does not assign: Kplus_, t_lastspike_, the connection's
\* delay, the common properties, the target's history.
AdjustFrame ==
  UNCHANGED <<Kplus_, t_lastspike_, delay, cp, connected, registered, history, now, pre,
              dispatched>>

\* adjust_weight( &adjQueue[i], missing_spike, cp ), called by the target.
adjust_weight(i, missing_spike) ==
  /\ connected
  /\ ~aborted
  /\ i \in DOMAIN adjQueue
  /\ Len(SelectSeq(sent, LAMBDA e : e.src = "adjust_weight")) < MaxAdjust
  /\ LET a == adjQueue[i]
         dd == DendriticDelay(delay, cp)
         r == AdjustResult(weight_, Kplus_, a, missing_spike, history, delay, cp)
     IN  /\ weight_' = r.weight
         /\ adjQueue' = [adjQueue EXCEPT ![i].old_weight_ = r.old_weight]
         /\ cout' = cout \o AdjustLines(r, missing_spike, history, dd)
         /\ aborted' = ~r.ok
         /\ lastOp' = [op |-> "adjust_weight", prev |-> lastOp.op, entry |-> i,
                       spike |-> missing_spike, rollback |-> r.rollback,
                       status_set |-> lastOp.status_set]
         /\ sent' = IF r.ok
                    THEN Append(sent, [src |-> "adjust_weight", weight |-> r.payload,
                                       delay_steps |-> delay, rport |-> get_rport,
                                       stamp |-> r.t_spike])
                    ELSE sent
  /\ AdjustFrame

\* ------------------------------------------------- the target and the clock
\* The target neuron fires at the current time; the spike is recorded before
\* a presynaptic spike with the same stamp is delivered.
PostSpike ==
  /\ connected
  /\ ~aborted
  /\ now \notin history
  /\ t_lastspike_ < now
  /\ Cardinality(history) < MaxPost
  /\ history' = history \cup {now}
  /\ UNCHANGED <<weight_, Kplus_, t_lastspike_, delay, cp, connected, registered,
                 adjQueue, sent, cout, now, aborted, pre, lastOp, dispatched>>

\* The kernel advances the clock by one step.
Tick ==
  /\ connected
  /\ ~aborted
  /\ now < MaxTime
  /\ now' = now + 1
  /\ UNCHANGED <<weight_, Kplus_, t_lastspike_, delay, cp, connected, registered,
                 history, adjQueue, sent, cout, aborted, pre, lastOp, dispatched>>

\* The target calls adjust_weight for a pending entry when it confirms the
\* postsynaptic spike of the current step, before a presynaptic spike with
\* the same stamp is delivered.
Adjust ==
  \E i \in DOMAIN adjQueue :
    /\ now \in history
    /\ t_lastspike_ < now
    /\ adjust_weight(i, now)

Next == check_connection \/ SetStatus \/ send \/ Adjust \/ PostSpike \/ Tick

Spec == Init /\ [][Next]_vars

\* ------------------------------------------------------------------ claims
\* A call of send() or adjust_weight() has completed (no assert failed in it).
Completed(op) == lastOp.op = op /\ ~aborted

\* C1: after every completed send() and adjust_weight(), in every reachable
\* state, the weight is >= 0.
C1_WeightNonNegative ==
  (Completed("send") \/ Completed("adjust_weight")) => RLe(Rat(0), weight_)

\* C1 witness: a correction whose depression was clamped to 0 from a positive
\* weight before depression.
C1_Witness ==
  /\ Completed("adjust_weight")
  /\ weight_ = Rat(0)
  /\ LET a == adjQueue[lastOp.entry]
     IN  /\ RLt(Rat(0), a.old_weight_)
         /\ RLt(depress_noclamp(a.old_weight_, get_K_value(history, a.t_received_), cp),
                Rat(0))

\* The last call was a completed adjust_weight() for the entry enqueued by the
\* send() just before it, with a spike that was not recorded when that send()
\* ran, lies in its query window, and is the only spike recorded since.
CorrectedRightAfterDispatch ==
  /\ Completed("adjust_weight")
  /\ lastOp.prev = "send"
  /\ lastOp.entry = Len(adjQueue)
  /\ cp.axonal_delay_ > DendriticDelay(delay, cp)
  /\ lastOp.spike \notin pre.history
  /\ history = pre.history \cup {lastOp.spike}
  /\ pre.t_lastspike_ - DendriticDelay(delay, cp) + cp.axonal_delay_ < lastOp.spike
  /\ lastOp.spike <= t_lastspike_ - DendriticDelay(delay, cp) + cp.axonal_delay_

\* C2: with axonal_delay > dendritic_delay, a send() that missed a spike of
\* its window followed at once by one adjust_weight() with that spike leaves
\* the weight that one send() from the same synapse state would have computed
\* with the spike in the history.
C2_CorrectionEqualsFullInformation ==
  CorrectedRightAfterDispatch =>
    weight_ = SendResult(pre.weight_, pre.Kplus_, pre.t_lastspike_, t_lastspike_,
                         history, delay, cp).weight

\* C2 witness: such a correction whose facilitation changed the weight the
\* entry held, and whose result is not 0.
C2_Witness ==
  /\ CorrectedRightAfterDispatch
  /\ adjQueue[lastOp.entry].old_weight_ # lastOp.rollback
  /\ weight_ # Rat(0)

\* The presynaptic spike time of the send() that enqueued entry a
\* (adjust_weight's t_spike).
EntrySpike(a) == a.t_received_ - cp.axonal_delay_ + DendriticDelay(delay, cp)

\* The weight before depression that the j-th completed send() printed: the
\* old_weight_ its entry was created with.
Snapshot(j) == SelectSeq(cout, LAMBDA l : l.tag = "depression")[j].a

\* Spike s lies in the query window of the send() that enqueued entry a.
InWindow(a, s) ==
  /\ a.t_lastspike_ - DendriticDelay(delay, cp) + cp.axonal_delay_ < s
  /\ s <= a.t_received_

\* The missing_spike of the completed adjust_weight() that sent event k.
AdjSpike(k) ==
  SelectSeq(cout, LAMBDA l : l.tag = "adj facilitation")
    [Len(SelectSeq(SubSeq(sent, 1, k), LAMBDA e : e.src = "adjust_weight"))].a
  - DendriticDelay(delay, cp)

\* Entry i was corrected, with a spike of its window, after entry j was
\* enqueued and before the last event; that correction changed the weight
\* entry i holds; and the last event is the first correction of entry j, with
\* a spike of its window.
CorrectedSecondOfTwoPending(i, j) ==
  /\ Completed("adjust_weight")
  /\ lastOp.entry = j
  /\ i \in 1..(j - 1)
  /\ cp.axonal_delay_ > DendriticDelay(delay, cp)
  /\ InWindow(adjQueue[j], lastOp.spike)
  /\ adjQueue[i].old_weight_ # Snapshot(i)
  /\ \E m \in 1..Len(sent) : \E k \in (m + 1)..(Len(sent) - 1) :
       /\ sent[m].src = "send" /\ sent[m].stamp = EntrySpike(adjQueue[j])
       /\ sent[k].src = "adjust_weight" /\ sent[k].stamp = EntrySpike(adjQueue[i])
       /\ InWindow(adjQueue[i], AdjSpike(k))
  /\ \A k \in 1..(Len(sent) - 1) :
       ~(sent[k].src = "adjust_weight" /\ sent[k].stamp = EntrySpike(adjQueue[j]))

\* C3: with two entries pending, once the earlier one has been corrected the
\* correction of the later one does not roll the weight back to the value
\* snapshotted when the later entry was created, but to a value that takes
\* the earlier correction into account.
C3_SecondCorrectionComposes ==
  \A j \in DOMAIN adjQueue : \A i \in 1..(j - 1) :
    CorrectedSecondOfTwoPending(i, j) => lastOp.rollback # Snapshot(j)

\* The number of completed calls of send().
NumSends == Len(SelectSeq(sent, LAMBDA e : e.src = "send"))

\* C4: every completed send() has enqueued exactly one adjustment entry when
\* axonal_delay > dendritic_delay and none otherwise (none when they are
\* equal); with axonal_delay = 0 and total delay >= 0 the queue stays empty.
C4_EntryIffAxonalExceedsDendritic ==
  /\ cp.axonal_delay_ > DendriticDelay(delay, cp) => Len(adjQueue) = NumSends
  /\ cp.axonal_delay_ <= DendriticDelay(delay, cp) => Len(adjQueue) = 0
  /\ (cp.axonal_delay_ = 0 /\ delay >= 0) => adjQueue = <<>>

\* C4 witness: two forward updates with axonal_delay = dendritic_delay > 0
\* and no entry enqueued.
C4_Witness ==
  /\ Completed("send")
  /\ NumSends >= 2
  /\ cp.axonal_delay_ = DendriticDelay(delay, cp)
  /\ cp.axonal_delay_ > 0
  /\ adjQueue = <<>>

\* C5: a configuration with axonal_delay above the total delay is rejected
\* when the connection is set up, so no send() or adjust_weight() ever runs
\* with dendritic_delay < 0.
C5_NoRunWithNegativeDendriticDelay ==
  lastOp.op \in {"send", "adjust_weight"} => DendriticDelay(delay, cp) >= 0

\* This step is a call of adjust_weight() (it always prints a line).
AdjustStep == lastOp'.op = "adjust_weight" /\ cout' # cout

\* This step is a call of send() (it always prints a line).
SendStep == lastOp'.op = "send" /\ cout' # cout

\* minus_dt of adjust_weight() for entry a and spike s.
AdjustMinusDt(a, s) ==
  a.t_lastspike_ + cp.axonal_delay_ - (s + DendriticDelay(delay, cp))

\* C6: when minus_dt of a facilitation step is not below -eps the run aborts
\* there: that spike's facilitation is not applied, no event is sent, no
\* entry is enqueued or changed, the trace and t_lastspike_ stay, and after
\* the abort no step changes anything.
C6_CausalityViolationAborts ==
  [][ /\ (AdjustStep /\ ~RLt(Rat(AdjustMinusDt(adjQueue[lastOp'.entry], lastOp'.spike)),
                             RNeg(StdpEps)))
         => /\ aborted'
            /\ sent' = sent
            /\ adjQueue' = adjQueue
            /\ weight_' = adjQueue[lastOp'.entry].old_weight_
            /\ Kplus_' = Kplus_ /\ t_lastspike_' = t_lastspike_
            /\ \A k \in (Len(cout) + 1)..Len(cout') : cout'[k].tag # "adj facilitation"
      /\ (SendStep /\ aborted')
         => /\ sent' = sent /\ adjQueue' = adjQueue
            /\ Kplus_' = Kplus_ /\ t_lastspike_' = t_lastspike_
      /\ aborted => UNCHANGED vars
    ]_vars

\* C6 witness: a correction has aborted on its assert.
C6_Witness ==
  /\ aborted
  /\ lastOp.op = "adjust_weight"
  /\ AdjustMinusDt(adjQueue[lastOp.entry], lastOp.spike) >= 0

\* C7: adjust_weight() changes only weight_ and old_weight_ of the entry it is
\* given: Kplus_, t_lastspike_, the entry's t_lastspike_ and t_received_, and
\* every other entry are as before the call.
C7_AdjustFrame ==
  [][ AdjustStep =>
        /\ Kplus_' = Kplus_
        /\ t_lastspike_' = t_lastspike_
        /\ Len(adjQueue') = Len(adjQueue)
        /\ \A k \in DOMAIN adjQueue :
             /\ adjQueue'[k].t_lastspike_ = adjQueue[k].t_lastspike_
             /\ adjQueue'[k].t_received_ = adjQueue[k].t_received_
             /\ k # lastOp'.entry => adjQueue'[k] = adjQueue[k]
    ]_vars

\* C7 witness: a completed correction that changed the weight and the entry's
\* old_weight_ while the trace holds more than the last spike's increment.
C7_Witness ==
  /\ Completed("adjust_weight")
  /\ adjQueue[lastOp.entry].old_weight_ # lastOp.rollback
  /\ weight_ # sent[Len(sent) - 1].weight
  /\ RLt(Rat(1), Kplus_)

\* Values of the postsynaptic trace tried on depress_.
TraceValues == {Rat(0), <<1, 4>>, <<1, 2>>, <<3, 4>>, Rat(1), Rat(2)}

\* C8: while no postsynaptic spike has been recorded (lambda, alpha >= 0), a
\* send() facilitates nothing, does its depression step, and leaves a weight
\* no larger than before; depress_ of the weight reached gives, for every
\* non-negative trace value, a weight between 0 and that weight.
C8_PureDepressionWithoutPostSpikes ==
  [][ (SendStep /\ history = {} /\ RLe(Rat(0), cp.lambda_) /\ RLe(Rat(0), cp.alpha_))
        => /\ RLe(weight_', weight_)
           /\ \A k \in (Len(cout) + 1)..Len(cout') : cout'[k].tag # "facilitation"
           /\ cout'[Len(cout')].tag = "depression"
           /\ cout'[Len(cout')].a = weight_
           /\ \A K \in TraceValues :
                /\ RLe(depress_(weight_', K, cp), weight_')
                /\ RLe(Rat(0), depress_(weight_', K, cp))
    ]_vars

\* C8 witness: three forward updates have run and no postsynaptic spike was
\* ever recorded.
C8_Witness ==
  /\ Completed("send")
  /\ NumSends = 3
  /\ history = {}
  /\ \A k \in DOMAIN cout : cout[k].tag # "facilitation"

\* The std::cout lines with tag t, in order.
Lines(t) == SelectSeq(cout, LAMBDA l : l.tag = t)

\* The number of send() facilitations that used the postsynaptic spike s.
UsedCount(s) ==
  Len(SelectSeq(cout, LAMBDA l : l.tag = "facilitation"
                                  /\ l.a = s + DendriticDelay(delay, cp)))

\* The presynaptic spike time of the send() that printed get_history line g.
WindowSpike(g) == g.b - cp.axonal_delay_ + DendriticDelay(delay, cp)

\* C9: the query windows of consecutive forward updates are adjacent and
\* disjoint (each starts where the one before ended and is not empty), and a
\* recorded postsynaptic spike is used for facilitation once, by the forward
\* update whose window holds it, if it was recorded when that update ran,
\* and by no forward update otherwise.
C9_WindowsAdjacentSpikeUsedOnce ==
  LET G == Lines("get_history")
  IN  /\ \A k \in 1..Len(G) : G[k].a < G[k].b
      /\ \A k \in 1..(Len(G) - 1) : G[k + 1].a = G[k].b
      /\ \A s \in history :
           UsedCount(s) =
             IF \E k \in 1..Len(G) : G[k].a < s /\ s <= G[k].b /\ s <= WindowSpike(G[k])
             THEN 1 ELSE 0

\* C9 witness: axonal_delay 0, dendritic delay 1, presynaptic spikes at 1 and
\* 3, a postsynaptic spike at 2: no facilitation in the first update, one in
\* the second, depression in both, no entry enqueued.
C9_Witness ==
  /\ cp.axonal_delay_ = 0 /\ delay = 1
  /\ history = {2}
  /\ Len(cout) = 5
  /\ cout[1] = [tag |-> "get_history", a |-> -1, b |-> 0]
  /\ cout[2].tag = "depression"
  /\ cout[3] = [tag |-> "get_history", a |-> 0, b |-> 2]
  /\ cout[4] = [tag |-> "facilitation", a |-> 3, b |-> 0]
  /\ cout[5].tag = "depression"
  /\ adjQueue = <<>>

\* The sum of the weights of the events of q that adjust_weight() sent with
\* stamp t.
RECURSIVE SumPayloads(_, _)
SumPayloads(q, t) ==
  IF q = <<>> THEN Rat(0)
  ELSE RAdd(IF q[1].src = "adjust_weight" /\ q[1].stamp = t THEN q[1].weight ELSE Rat(0),
            SumPayloads(Tail(q), t))

\* What the events before the last one carried to the target for the
\* presynaptic spike at t: the weight of its send() event plus the payloads of
\* the corrections already sent for it.
Delivered(t) ==
  LET q == SubSeq(sent, 1, Len(sent) - 1)
  IN  RAdd(SelectSeq(q, LAMBDA e : e.src = "send" /\ e.stamp = t)[1].weight,
           SumPayloads(q, t))

\* C10: the weight a correction event carries is the weight after the
\* correction minus what was carried to the target so far for the entry's
\* presynaptic spike.
C10_PayloadIsChangeSinceDispatch ==
  Completed("adjust_weight") =>
    sent[Len(sent)].weight =
      RSub(weight_, Delivered(EntrySpike(adjQueue[lastOp.entry])))

\* The number of events of q that send() delivered.
CountSends(q) == Len(SelectSeq(q, LAMBDA e : e.src = "send"))

\* C11: every completed send() delivers exactly one event; the event carries
\* the weight as it is after the facilitation loop and the depression of that
\* call, the connection's delay in steps and its port; when e() is called the
\* entry is not yet enqueued and Kplus_ and t_lastspike_ are not yet updated.
C11_OneEventBeforeEnqueueAndTrace ==
  [][ (SendStep /\ ~aborted') =>
        /\ Len(sent') = Len(sent) + 1
        /\ CountSends(sent') = CountSends(sent) + 1
        /\ SubSeq(sent', 1, Len(sent)) = sent
        /\ LET e == sent'[Len(sent')]
               d == cout'[Len(cout')]
               v == dispatched'[Len(dispatched')].at_event
           IN  /\ e.src = "send"
               /\ e.stamp = now
               /\ e.weight = weight_'
               /\ d.tag = "depression" /\ e.weight = d.b
               /\ e.delay_steps = delay
               /\ e.rport = get_rport
               /\ v.weight_ = e.weight
               /\ v.pending = Len(adjQueue)
               /\ v.Kplus_ = Kplus_
               /\ v.t_lastspike_ = t_lastspike_
    ]_vars

\* C11 witness: a second send() has completed that facilitated, depressed and
\* enqueued an entry, and whose event found the trace and the queue as they
\* were before the call.
C11_Witness ==
  /\ Completed("send")
  /\ Len(adjQueue) >= 2
  /\ cout[Len(cout) - 1].tag = "facilitation"
  /\ cout[Len(cout)].a # cout[Len(cout)].b
  /\ sent[Len(sent)].weight = cout[Len(cout)].b
  /\ dispatched[Len(dispatched)].at_event.pending = Len(adjQueue) - 1
  /\ dispatched[Len(dispatched)].at_event.Kplus_ # Kplus_

\* Kplus_corr of the completed adjust_weight() that was the last call (the
\* call leaves Kplus_ as it found it).
LastKplusCorr ==
  KplusCorr(Kplus_, adjQueue[lastOp.entry].t_lastspike_, EntrySpike(adjQueue[lastOp.entry]))

\* C12: in every completed adjust_weight() with a spike of the entry's window,
\* Kplus_corr is the value Kplus_ had when the send() that created the entry
\* was entered, also when later calls of send() came before the correction.
C12_KplusCorrIsDispatchTrace ==
  (Completed("adjust_weight") /\ InWindow(adjQueue[lastOp.entry], lastOp.spike))
    => LastKplusCorr = dispatched[lastOp.entry].Kplus_

\* The spikes get_history returned to the last completed send().
LastSendSpikes ==
  LET dd == DendriticDelay(delay, cp)
  IN  get_history(pre.history, WindowLower(pre.t_lastspike_, dd, cp),
                  WindowUpper(t_lastspike_, dd, cp))

\* minus_dt of send() for the postsynaptic spike s.
SendMinusDt(s) ==
  pre.t_lastspike_ + cp.axonal_delay_ - (s + DendriticDelay(delay, cp))

\* C13: get_history returns to send() only spikes above the lower bound
\* t_lastspike_ - dendritic_delay + axonal_delay, so minus_dt < -eps holds for
\* every returned spike and no send() ever fails its assert.
C13_SendNeverViolatesCausality ==
  /\ ~(aborted /\ lastOp.op = "send")
  /\ Completed("send") =>
       \A k \in DOMAIN LastSendSpikes :
         /\ LastSendSpikes[k] >
              WindowLower(pre.t_lastspike_, DendriticDelay(delay, cp), cp)
         /\ RLt(Rat(SendMinusDt(LastSendSpikes[k])), RNeg(StdpEps))

\* C13 witness: a completed send() facilitated with two spikes, the first of
\* them the earliest one its window admits.
C13_Witness ==
  /\ Completed("send")
  /\ Len(LastSendSpikes) = 2
  /\ LastSendSpikes[1] =
       WindowLower(pre.t_lastspike_, DendriticDelay(delay, cp), cp) + 1
  /\ cout[Len(cout) - 1].tag = "facilitation"
  /\ cout[Len(cout) - 2].tag = "facilitation"

\* C14: adjust_weight() with a spike of the window of the send() that created
\* the entry has minus_dt < -eps and does not abort; with a spike of the
\* window of an earlier entry, used on a later entry of the synapse (whose
\* t_lastspike_ is at or after the earlier entry's presynaptic spike), the
\* assert fails.
C14_WindowSpikePassesLaterEntryFails ==
  [][ AdjustStep =>
        LET j == lastOp'.entry
            s == lastOp'.spike
            a == adjQueue[j]
        IN  /\ InWindow(a, s)
                 => /\ RLt(Rat(AdjustMinusDt(a, s)), RNeg(StdpEps))
                    /\ ~aborted'
            /\ \A i \in 1..(j - 1) :
                 InWindow(adjQueue[i], s)
                   => /\ a.t_lastspike_ >= EntrySpike(adjQueue[i])
                      /\ ~RLt(Rat(AdjustMinusDt(a, s)), RNeg(StdpEps))
                      /\ aborted'
    ]_vars

\* C14 witness: a spike of the first entry's window corrected the first entry,
\* and then the same spike, used on the second entry, failed the assert.
C14_Witness ==
  /\ aborted
  /\ lastOp.op = "adjust_weight"
  /\ lastOp.prev = "adjust_weight"
  /\ lastOp.entry = 2
  /\ InWindow(adjQueue[1], lastOp.spike)
  /\ adjQueue[2].t_lastspike_ = EntrySpike(adjQueue[1])
  /\ sent[Len(sent)].src = "adjust_weight"
  /\ sent[Len(sent)].stamp = EntrySpike(adjQueue[1])
  /\ AdjSpike(Len(sent)) = lastOp.spike

\* The stamp of the last event of q that send() delivered, 0 when there is none.
LastSendStamp(q) ==
  LET f == SelectSeq(q, LAMBDA e : e.src = "send")
  IN  IF f = <<>> THEN 0 ELSE f[Len(f)].stamp

\* C15: the entry a completed send() at t_spike enqueues holds t_lastspike_ as
\* it was before the call (the previous presynaptic spike, 0 for the first),
\* the weight after the facilitation loop and before the depression, and
\* t_received_ = t_spike + axonal_delay - dendritic_delay.
C15_EntryFields ==
  [][ (SendStep /\ ~aborted' /\ cp.axonal_delay_ > DendriticDelay(delay, cp)) =>
        /\ Len(adjQueue') = Len(adjQueue) + 1
        /\ SubSeq(adjQueue', 1, Len(adjQueue)) = adjQueue
        /\ LET a == adjQueue'[Len(adjQueue')]
               dd == DendriticDelay(delay, cp)
               h == get_history(history, t_lastspike_ - dd + cp.axonal_delay_,
                                now - dd + cp.axonal_delay_)
           IN  /\ a.t_lastspike_ = t_lastspike_
               /\ a.t_lastspike_ = LastSendStamp(sent)
               /\ a.old_weight_ = FacilLoop(weight_, h, 1, Kplus_, t_lastspike_, dd, cp).w
               /\ a.old_weight_ = cout'[Len(cout')].a
               /\ weight_' = depress_(a.old_weight_, get_K_value(history, a.t_received_), cp)
               /\ a.t_received_ = now + cp.axonal_delay_ - dd
    ]_vars

\* C15 witness: a send() after the first enqueued an entry whose old_weight_
\* is neither the weight at entry of the call (it facilitated) nor the weight
\* after it (it depressed).
C15_Witness ==
  /\ Completed("send")
  /\ Len(adjQueue) >= 2
  /\ LET a == adjQueue[Len(adjQueue)]
     IN  /\ a.t_lastspike_ > 0
         /\ a.old_weight_ # pre.weight_
         /\ a.old_weight_ # weight_
         /\ a.t_received_ > t_lastspike_

\* The event of the j-th completed send(), the one that enqueued entry j.
ForwardEvent(j) == SelectSeq(sent, LAMBDA e : e.src = "send")[j]

\* C16: the event of a completed adjust_weight() has the stamp of the send()
\* that created the entry (t_spike recomputed from t_received_), and that
\* send event's delay in steps and port; the depression of the correction
\* uses the postsynaptic trace at the entry's t_received_.
C16_CorrectionStampAndTrace ==
  [][ (AdjustStep /\ ~aborted') =>
        LET j == lastOp'.entry
            a == adjQueue[j]
            e == sent'[Len(sent')]
        IN  /\ Len(sent') = Len(sent) + 1
            /\ e.src = "adjust_weight"
            /\ a.t_lastspike_ = dispatched[j].t_lastspike_
            /\ e.stamp = ForwardEvent(j).stamp
            /\ e.delay_steps = ForwardEvent(j).delay_steps
            /\ e.rport = ForwardEvent(j).rport
            /\ weight_' = depress_(adjQueue'[j].old_weight_,
                                   get_K_value(history, a.t_received_), cp)
    ]_vars

\* C16 witness: the first of two entries was corrected after the second
\* send(); the correction event has the first send's stamp, and the
\* depression of the correction changed the weight.
C16_Witness ==
  /\ Completed("adjust_weight")
  /\ lastOp.entry = 1
  /\ Len(adjQueue) >= 2
  /\ sent[Len(sent)].stamp = ForwardEvent(1).stamp
  /\ sent[Len(sent)].stamp < t_lastspike_
  /\ adjQueue[1].t_received_ # sent[Len(sent)].stamp
  /\ weight_ # adjQueue[1].old_weight_

\* t_lastspike_ as it was when check_connection() ran: no send() came before.
SpikeAtConnection ==
  IF dispatched = <<>> THEN t_lastspike_ ELSE dispatched[1].t_lastspike_

\* C17: with 0 <= axonal_delay <= total delay, the history start registered
\* by check_connection() is no later than t_lastspike_ - dendritic_delay, and
\* no later than the lower bound of any window a later send() asks for.
C17_RegisteredStartCoversWindows ==
  (connected /\ 0 <= cp.axonal_delay_ /\ cp.axonal_delay_ <= delay) =>
    /\ registered[1] <= SpikeAtConnection - DendriticDelay(delay, cp)
    /\ registered[2] = delay
    /\ \A k \in DOMAIN Lines("get_history") : registered[1] <= Lines("get_history")[k].a

\* C17 witness: axonal and dendritic delay both positive, the registered
\* start strictly before t_lastspike_ - dendritic_delay, and two windows
\* asked for since.
C17_Witness ==
  /\ connected
  /\ 0 < cp.axonal_delay_ /\ cp.axonal_delay_ < delay
  /\ registered[1] < SpikeAtConnection - DendriticDelay(delay, cp)
  /\ Len(Lines("get_history")) >= 2
  /\ registered[1] < Lines("get_history")[1].a

\* The value held by a receiver of the events q that takes the weight of a
\* send() event as its value and adds the weight of an adjust_weight() event.
RECURSIVE Receiver(_)
Receiver(q) ==
  IF q = <<>> THEN Rat(0)
  ELSE LET e == q[Len(q)]
       IN  IF e.src = "send" THEN e.weight
           ELSE RAdd(Receiver(SubSeq(q, 1, Len(q) - 1)), e.weight)

\* C18: without set_status, after any completed calls of send() and
\* adjust_weight() (at least one send), the weight is the weight of the last
\* send() event plus the payloads of the correction events sent since.
C18_ReceiverHoldsWeight ==
  (~lastOp.status_set /\ ~aborted /\ CountSends(sent) >= 1) => weight_ = Receiver(sent)

\* C18 witness: two corrections for different entries, both with a payload
\* other than 0, since the last send().
C18_Witness ==
  /\ ~lastOp.status_set
  /\ Completed("adjust_weight")
  /\ Len(sent) >= 4
  /\ sent[Len(sent)].src = "adjust_weight"
  /\ sent[Len(sent) - 1].src = "adjust_weight"
  /\ sent[Len(sent)].stamp # sent[Len(sent) - 1].stamp
  /\ sent[Len(sent)].weight # Rat(0)
  /\ sent[Len(sent) - 1].weight # Rat(0)
  /\ weight_ = Receiver(sent)

\* C19: from a new synapse and without set_status, with presynaptic spikes
\* delivered in increasing order of time: only send() changes t_lastspike_,
\* it is the stamp of the last spike send() processed (0 before the first)
\* and never decreases; Kplus_ is >= 1 after every send(), and Kplus_corr of
\* every correction is >= 0.
C19_LastSpikeMonotoneTraceAtLeastOne ==
  [][ /\ t_lastspike_' # t_lastspike_ => (SendStep /\ ~aborted' /\ t_lastspike_' = now)
      /\ t_lastspike_' >= t_lastspike_
      /\ ~aborted' => t_lastspike_' = LastSendStamp(sent')
      /\ (~lastOp'.status_set /\ CountSends(sent') >= 1) => RLe(Rat(1), Kplus_')
      /\ (AdjustStep /\ ~aborted' /\ ~lastOp'.status_set)
           => RLe(Rat(0), KplusCorr(Kplus_, adjQueue[lastOp'.entry].t_lastspike_,
                                    AdjustSpikeTime(adjQueue[lastOp'.entry],
                                                    DendriticDelay(delay, cp), cp)))
    ]_vars

\* C19 witness: without set_status, three presynaptic spikes were processed,
\* the trace is above 1, and a correction with a positive Kplus_corr completed.
C19_Witness ==
  /\ ~lastOp.status_set
  /\ Completed("adjust_weight")
  /\ CountSends(sent) = 3
  /\ t_lastspike_ = LastSendStamp(sent)
  /\ t_lastspike_ >= 3
  /\ RLt(Rat(1), Kplus_)
  /\ RLt(Rat(0), LastKplusCorr)

====
